---- MODULE Spec2Model ----
(***************************************************************************)
(* OmniSIMO: the point-to-point transport of the OmniPaxos server          *)
(* (ddbb_server/src/omni_paxos_server/op_connection.rs) and the Message    *)
(* envelope accessors (omnipaxos_core/src/messages.rs).                    *)
(*                                                                         *)
(* One local transport instance (node SelfId) with its peer table, its     *)
(* shared outgoing buffer, its ConnectedSet and one sender task per peer;  *)
(* every peer runs the listener side of the same code: an accept loop, one *)
(* reader task per accepted connection and the peer's incoming buffer,     *)
(* which the peer's consumer drains with receive_message.                  *)
(***************************************************************************)
EXTENDS Naturals, Integers, Sequences, FiniteSets, TLC

\* ------------------------------------------------------------------ bounds
MaxPeers == 2      \* largest peer table explored (P ranges over 1..MaxPeers)
MaxMsgs  == 3      \* number of send_message calls explored
MaxFails == 1      \* number of write failures the network produces

SelfId  == 1                        \* the local node, as in test_omni_simo
PeerIds == (SelfId + 1) .. (SelfId + MaxPeers)
Uids    == 1 .. MaxMsgs
Gens    == 1 .. (MaxFails + 1)      \* connections a sender can open in a run
Tags    == {"SequencePaxos", "BLE"}
NoMsg   == [tag |-> "None"]
\* the callers alternate between the two message families
TagOf(n) == IF n % 2 = 1 THEN "SequencePaxos" ELSE "BLE"

\* ---------------------------------------------------------------- messages
\* Message::SequencePaxos(PaxosMessage{from,to,msg}) / Message::BLE(BLEMessage{from,to,msg})
\* The payload is the number of the send_message call that submitted it.
PaxosMessage(f, t, m) == [from |-> f, to |-> t, msg |-> m]
BLEMessage(f, t, m)   == [from |-> f, to |-> t, msg |-> m]
Message(tag, f, t, m) ==
    IF tag = "SequencePaxos" THEN [tag |-> "SequencePaxos", env |-> PaxosMessage(f, t, m)]
                             ELSE [tag |-> "BLE", env |-> BLEMessage(f, t, m)]

\* enum PaxosMsg and enum HeartbeatMsg: the payload variants
PaxosMsg ==
    {"PrepareReq", "Prepare", "Promise", "AcceptSync", "FirstAccept",
     "AcceptDecide", "Accepted", "Decide", "ProposalForward", "Compaction",
     "AcceptStopSign", "AcceptedStopSign", "DecideStopSign", "ForwardStopSign"}
HeartbeatMsg == {"Request", "Reply"}
\* NodeId values a from or to field takes: the local node and its peers
NodeIds == SelfId .. (SelfId + MaxPeers)

get_sender(m) ==
    CASE m.tag = "SequencePaxos" -> m.env.from
      [] m.tag = "BLE"           -> m.env.from

\* (get_receiver_swapped: the faulty variant whose BLE arm returns the sender)
get_receiver_swapped(m) ==
    CASE m.tag = "SequencePaxos" -> m.env.to
      [] m.tag = "BLE"           -> m.env.from

get_receiver(m) ==
    CASE m.tag = "SequencePaxos" -> m.env.to
      [] m.tag = "BLE"           -> m.env.to

\* OmniMessageEntry{omni_msg}.to_frame() / OmniMessageEntry::from_frame(frame)
to_frame(m)   == <<"OmniMessageEntry", m.tag, m.env.from, m.env.to, m.env.msg>>
from_frame(f) == Message(f[2], f[3], f[4], f[5])
\* what a write_frame that returned Err may have left on the stream
Truncated == <<"Truncated">>
\* Connection::read_frame returns Ok(Some(frame)) for a complete frame and
\* Err for bytes that are no frame
read_frame_ok(f) == f[1] = "OmniMessageEntry"

\* --------------------------------------------------------- Vec / VecDeque
\* (push_front: the faulty variant that enqueues at the head)
push_front(q, x) == <<x>> \o q
push_back(q, x)  == Append(q, x)
front(q)         == Head(q)
\* line 99: buf.pop_front() of a dead letter
discard_front(q) == Tail(q)
\* line 107: outgoing_buffer.lock().unwrap().pop_front()
\* (peek_for_send: the faulty variant that leaves the message queued)
peek_for_send(q) == q
pop_for_send(q)  == Tail(q)
\* line 54: buf.lock().unwrap().pop_front()
\* (pop_back_incoming: the faulty variant that removes the newest message)
pop_back_incoming(q) == SubSeq(q, 1, Len(q) - 1)
pop_incoming(q)  == Tail(q)
insert0(v, x)    == <<x>> \o v
contains(v, x)   == \E i \in 1 .. Len(v) : v[i] = x
\* (retain_all: the faulty variant that removes nothing)
retain_all(v, x) == v
\* (retain_first_out: the faulty variant that removes the entry at index 0)
retain_first_out(v, x) == Tail(v)
retain_ne(v, x)  == SelectSeq(v, LAMBDA y : y # x)

\* (peers.len() + 1) / 2 + 1
\* (quorum_counting_self, quorum_too_strict: faulty variants, one too few and
\* one too many)
quorum_counting_self(n) == (n + 1) \div 2
quorum_too_strict(n)    == (n + 1) \div 2 + 2
quorum(n)               == (n + 1) \div 2 + 1

VARIABLES
    peers,       \* OmniSIMO.peers: the ids of the peer table
    outgoing,    \* OmniSIMO.outgoing_buffer
    connected,   \* OmniSIMO.connected (a Vec)
    ss_pc,       \* start_sender: "init", "polling", "returned"
    ss_result,   \* what start_sender returned: "none", "Ok"
    spc,         \* per peer: position of process_outgoing_connection
    held,        \* per peer: the message popped at line 107, being written
    gen,         \* per peer: number of the sender's current connection (0: none)
    fails,       \* write failures so far
    chan,        \* per peer and connection: frames written, not yet read
    listening,   \* per peer: start_incoming_listener has bound the address
    rdr,         \* per peer and connection: process_connection task
    incoming,    \* per peer: the peer's incoming_buffer
    sent,        \* history: the messages passed to send_message, in call order
    wcount,      \* history: per message, successful write_frame calls
    failed,      \* history: the failed write_frame calls: the message, and how
                 \* many messages for the same peer were queued behind it
    cc,          \* history: per message, receiver connected ever since enqueue
    at_send,     \* history: per message, receiver connected when send_message ran
    arrived,     \* history: per peer, the messages pushed onto incoming_buffer
    received,    \* history: per peer, the messages receive_message returned
    probe        \* a Message value and what its accessors returned for it

transportVars ==
    <<peers, outgoing, connected, ss_pc, ss_result, spc, held, gen, fails,
      chan, listening, rdr, incoming, sent, wcount, failed, cc, at_send,
      arrived, received>>
vars == <<transportVars, probe>>

senderVars == <<outgoing, connected, spc, held, gen, fails>>
peerVars   == <<chan, listening, rdr, incoming, arrived, received>>
histVars   == <<sent, wcount, failed, cc, at_send>>

NoProbe == [m |-> NoMsg, sender |-> 0, receiver |-> 0]

\* OmniSIMO::new
TransportInit ==
    /\ peers \in {(SelfId + 1) .. (SelfId + n) : n \in 1 .. MaxPeers}
    /\ outgoing = <<>>
    /\ connected = <<>>
    /\ ss_pc = "init"
    /\ ss_result = "none"
    /\ spc = [p \in PeerIds |-> "unspawned"]
    /\ held = [p \in PeerIds |-> NoMsg]
    /\ gen = [p \in PeerIds |-> 0]
    /\ fails = 0
    /\ chan = [p \in PeerIds |-> [g \in Gens |-> <<>>]]
    /\ listening = [p \in PeerIds |-> FALSE]
    /\ rdr = [p \in PeerIds |-> [g \in Gens |-> "none"]]
    /\ incoming = [p \in PeerIds |-> <<>>]
    /\ sent = <<>>
    /\ wcount = [u \in Uids |-> 0]
    /\ failed = {}
    /\ cc = [u \in Uids |-> FALSE]
    /\ at_send = [u \in Uids |-> FALSE]
    /\ arrived = [p \in PeerIds |-> <<>>]
    /\ received = [p \in PeerIds |-> <<>>]

Init ==
    /\ TransportInit
    /\ probe = NoProbe

\* ------------------------------------------------------------ send_message
send_message(t) ==
    /\ Len(sent) < MaxMsgs
    /\ LET m == Message(TagOf(Len(sent) + 1), SelfId, t, Len(sent) + 1) IN
         /\ outgoing' = push_back(outgoing, m)
         /\ sent' = Append(sent, m)
         /\ cc' = [cc EXCEPT ![Len(sent) + 1] = contains(connected, t)]
         /\ at_send' = [at_send EXCEPT ![Len(sent) + 1] = contains(connected, t)]
    /\ UNCHANGED <<probe, peers, connected, ss_pc, ss_result, spc, held, gen, fails,
                   wcount, failed>>
    /\ UNCHANGED peerVars

\* ------------------------------------------------------------ start_sender
\* lines 130-148: spawn one process_outgoing_connection per peer
start_sender_spawn ==
    /\ ss_pc = "init"
    /\ ss_pc' = "polling"
    /\ spc' = [p \in PeerIds |-> IF p \in peers THEN "connecting" ELSE spc[p]]
    /\ UNCHANGED <<probe, peers, outgoing, connected, ss_result, held, gen, fails>>
    /\ UNCHANGED peerVars
    /\ UNCHANGED histVars

\* lines 150-155: the readiness gate; a poll that finds the ConnectedSet too
\* small sleeps and changes nothing
start_sender_return ==
    /\ ss_pc = "polling"
    /\ Len(connected) >= quorum(Cardinality(peers))
    /\ ss_pc' = "returned"
    /\ ss_result' = "Ok"
    /\ UNCHANGED <<probe, peers, outgoing, connected, spc, held, gen, fails>>
    /\ UNCHANGED peerVars
    /\ UNCHANGED histVars

\* (sender_connect_in_turn: the faulty variant in which the connections are
\* opened one after the other, in the order of the peer table)
sender_connect_in_turn(p) ==
    /\ spc[p] = "connecting"
    /\ listening[p]
    /\ \A q \in peers : q < p => gen[q] > 0
    /\ gen' = [gen EXCEPT ![p] = 1]
    /\ connected' = insert0(connected, p)
    /\ spc' = [spc EXCEPT ![p] = "polling"]
    /\ UNCHANGED <<probe, peers, outgoing, ss_pc, ss_result, held, fails>>
    /\ UNCHANGED peerVars
    /\ UNCHANGED histVars

\* ----------------------------------------------- process_outgoing_connection
\* lines 71-79: TcpStream::connect succeeds once the peer's listener is bound
sender_connect(p) ==
    /\ spc[p] = "connecting"
    /\ listening[p]
    /\ gen' = [gen EXCEPT ![p] = 1]
    /\ connected' = insert0(connected, p)
    /\ spc' = [spc EXCEPT ![p] = "polling"]
    /\ UNCHANGED <<probe, peers, outgoing, ss_pc, ss_result, held, fails>>
    /\ UNCHANGED peerVars
    /\ UNCHANGED histVars

\* (sender_inspect_unconnected: the faulty variant in which a sender polls
\* the queue from its connect loop and its reconnect as well)
sender_inspect_unconnected(p) ==
    /\ spc[p] \in {"polling", "connecting", "reconnecting"}
    /\ outgoing # <<>>
    /\ LET msg == front(outgoing) IN
         IF ~ contains(connected, get_receiver(msg))
         THEN /\ outgoing' = discard_front(outgoing)
              /\ spc' = spc
         ELSE IF get_receiver(msg) = p
         THEN /\ spc' = [spc EXCEPT ![p] = "can_send"]
              /\ outgoing' = outgoing
         ELSE /\ spc' = spc
              /\ outgoing' = outgoing
    /\ UNCHANGED <<probe, peers, connected, ss_pc, ss_result, held, gen, fails>>
    /\ UNCHANGED peerVars
    /\ UNCHANGED histVars

\* (sender_inspect_any: the faulty variant in which a sender takes the head
\* for its own connection whenever the head's receiver is connected)
sender_inspect_any(p) ==
    /\ spc[p] = "polling"
    /\ outgoing # <<>>
    /\ LET msg == front(outgoing) IN
         IF ~ contains(connected, get_receiver(msg))
         THEN /\ outgoing' = discard_front(outgoing)
              /\ spc' = spc
         ELSE /\ spc' = [spc EXCEPT ![p] = "can_send"]
              /\ outgoing' = outgoing
    /\ UNCHANGED <<probe, peers, connected, ss_pc, ss_result, held, gen, fails>>
    /\ UNCHANGED peerVars
    /\ UNCHANGED histVars

\* (sender_inspect_greedy: the faulty variant in which a sender discards
\* every head that is not addressed to its own peer)
sender_inspect_greedy(p) ==
    /\ spc[p] = "polling"
    /\ outgoing # <<>>
    /\ LET msg == front(outgoing) IN
         IF get_receiver(msg) # p
         THEN /\ outgoing' = discard_front(outgoing)
              /\ spc' = spc
         ELSE /\ spc' = [spc EXCEPT ![p] = "can_send"]
              /\ outgoing' = outgoing
    /\ UNCHANGED <<probe, peers, connected, ss_pc, ss_result, held, gen, fails>>
    /\ UNCHANGED peerVars
    /\ UNCHANGED histVars

\* (sender_inspect_own_only: the faulty variant in which a sender handles,
\* and discards, only the messages of its own peer)
sender_inspect_own_only(p) ==
    /\ spc[p] = "polling"
    /\ outgoing # <<>>
    /\ LET msg == front(outgoing) IN
         IF get_receiver(msg) # p
         THEN /\ spc' = spc
              /\ outgoing' = outgoing
         ELSE IF ~ contains(connected, get_receiver(msg))
         THEN /\ outgoing' = discard_front(outgoing)
              /\ spc' = spc
         ELSE /\ spc' = [spc EXCEPT ![p] = "can_send"]
              /\ outgoing' = outgoing
    /\ UNCHANGED <<probe, peers, connected, ss_pc, ss_result, held, gen, fails>>
    /\ UNCHANGED peerVars
    /\ UNCHANGED histVars

\* lines 84-102: first critical section; inspect the head, discard a dead letter
sender_inspect(p) ==
    /\ spc[p] = "polling"
    /\ outgoing # <<>>
    /\ LET msg == front(outgoing) IN
         IF ~ contains(connected, get_receiver(msg))
         THEN /\ outgoing' = discard_front(outgoing)
              /\ spc' = spc
         ELSE IF get_receiver(msg) = p
         THEN /\ spc' = [spc EXCEPT ![p] = "can_send"]
              /\ outgoing' = outgoing
         ELSE /\ spc' = spc
              /\ outgoing' = outgoing
    /\ UNCHANGED <<probe, peers, connected, ss_pc, ss_result, held, gen, fails>>
    /\ UNCHANGED peerVars
    /\ UNCHANGED histVars

\* line 107: second critical section; pop_front().unwrap()
sender_pop(p) ==
    /\ spc[p] = "can_send"
    /\ IF outgoing = <<>>
       THEN /\ spc' = [spc EXCEPT ![p] = "panicked"]
            /\ UNCHANGED <<outgoing, held>>
       ELSE /\ held' = [held EXCEPT ![p] = front(outgoing)]
            /\ outgoing' = pop_for_send(outgoing)
            /\ spc' = [spc EXCEPT ![p] = "writing"]
    /\ UNCHANGED <<probe, peers, connected, ss_pc, ss_result, gen, fails>>
    /\ UNCHANGED peerVars
    /\ UNCHANGED histVars

\* line 110: write_frame returns Ok
sender_write_ok(p) ==
    /\ spc[p] = "writing"
    /\ chan' = [chan EXCEPT ![p][gen[p]] = Append(@, to_frame(held[p]))]
    /\ wcount' = [wcount EXCEPT ![held[p].env.msg] = @ + 1]
    /\ held' = [held EXCEPT ![p] = NoMsg]
    /\ spc' = [spc EXCEPT ![p] = "polling"]
    /\ UNCHANGED <<probe, peers, outgoing, connected, ss_pc, ss_result, gen, fails>>
    /\ UNCHANGED <<listening, rdr, incoming, arrived, received>>
    /\ UNCHANGED <<sent, failed, cc, at_send>>

\* lines 110-114: write_frame returns Err; the popped message is not kept;
\* part of its frame may have reached the stream
sender_write_fail(p) ==
    /\ spc[p] = "writing"
    /\ fails < MaxFails
    /\ fails' = fails + 1
    /\ connected' = retain_ne(connected, p)
    /\ failed' = failed \cup
          {[msg |-> held[p].env.msg,
            queued |-> Len(SelectSeq(outgoing, LAMBDA m : get_receiver(m) = p))]}
    /\ cc' = [u \in Uids |->
                IF \E i \in 1 .. Len(outgoing) :
                      outgoing[i].env.msg = u /\ get_receiver(outgoing[i]) = p
                THEN FALSE ELSE cc[u]]
    /\ held' = [held EXCEPT ![p] = NoMsg]
    /\ spc' = [spc EXCEPT ![p] = "reconnecting"]
    /\ \E partial \in BOOLEAN :
          chan' = IF partial
                    THEN [chan EXCEPT ![p][gen[p]] = Append(@, Truncated)]
                    ELSE chan
    /\ UNCHANGED <<probe, peers, outgoing, ss_pc, ss_result, gen>>
    /\ UNCHANGED <<listening, rdr, incoming, arrived, received>>
    /\ UNCHANGED <<sent, wcount, at_send>>

\* (sender_reconnect_no_insert: the faulty variant without line 117)
sender_reconnect_no_insert(p) ==
    /\ spc[p] = "reconnecting"
    /\ listening[p]
    /\ gen' = [gen EXCEPT ![p] = @ + 1]
    /\ spc' = [spc EXCEPT ![p] = "polling"]
    /\ UNCHANGED <<probe, peers, outgoing, connected, ss_pc, ss_result, held, fails>>
    /\ UNCHANGED peerVars
    /\ UNCHANGED histVars

\* lines 115-117: connection.reconnect succeeds; the old stream is dropped
sender_reconnect(p) ==
    /\ spc[p] = "reconnecting"
    /\ listening[p]
    /\ gen' = [gen EXCEPT ![p] = @ + 1]
    /\ connected' = insert0(connected, p)
    /\ spc' = [spc EXCEPT ![p] = "polling"]
    /\ UNCHANGED <<probe, peers, outgoing, ss_pc, ss_result, held, fails>>
    /\ UNCHANGED peerVars
    /\ UNCHANGED histVars

\* -------------------------------------------------- start_incoming_listener
\* lines 160-162, 175: the peer binds its address
start_incoming_listener(p) ==
    /\ p \in peers
    /\ ~ listening[p]
    /\ listening' = [listening EXCEPT ![p] = TRUE]
    /\ UNCHANGED <<probe, peers, ss_pc, ss_result>>
    /\ UNCHANGED senderVars
    /\ UNCHANGED <<chan, rdr, incoming, arrived, received>>
    /\ UNCHANGED histVars

\* lines 164-173: accept a connection and spawn its process_connection task
listener_accept(p, g) ==
    /\ listening[p]
    /\ g <= gen[p]
    /\ rdr[p][g] = "none"
    /\ rdr' = [rdr EXCEPT ![p][g] = "running"]
    /\ UNCHANGED <<probe, peers, ss_pc, ss_result>>
    /\ UNCHANGED senderVars
    /\ UNCHANGED <<chan, listening, incoming, arrived, received>>
    /\ UNCHANGED histVars

\* ------------------------------------------------------- process_connection
\* lines 183-188: read one frame, decode it, push it onto incoming_buffer
reader_read(p, g) ==
    /\ rdr[p][g] = "running"
    /\ chan[p][g] # <<>>
    /\ read_frame_ok(Head(chan[p][g]))
    /\ LET m == from_frame(Head(chan[p][g])) IN
         /\ incoming' = [incoming EXCEPT ![p] = push_back(@, m)]
         /\ arrived' = [arrived EXCEPT ![p] = Append(@, m)]
    /\ chan' = [chan EXCEPT ![p][g] = Tail(@)]
    /\ UNCHANGED <<probe, peers, ss_pc, ss_result>>
    /\ UNCHANGED senderVars
    /\ UNCHANGED <<listening, rdr, received>>
    /\ UNCHANGED histVars

\* (reader_bad_frame_poisons: the faulty variant in which the failing task
\* takes the readers that share its incoming_buffer down with it)
reader_bad_frame_poisons(p, g) ==
    /\ rdr[p][g] = "running"
    /\ chan[p][g] # <<>>
    /\ ~ read_frame_ok(Head(chan[p][g]))
    /\ chan' = [chan EXCEPT ![p][g] = Tail(@)]
    /\ rdr' = [rdr EXCEPT ![p] =
                 [h \in Gens |-> IF rdr[p][h] = "running" THEN "done" ELSE rdr[p][h]]]
    /\ UNCHANGED <<probe, peers, ss_pc, ss_result>>
    /\ UNCHANGED senderVars
    /\ UNCHANGED <<listening, incoming, arrived, received>>
    /\ UNCHANGED histVars

\* lines 183, 189-193: read_frame returns Err for bytes that are no frame;
\* the task leaves its loop, nothing is pushed
reader_bad_frame(p, g) ==
    /\ rdr[p][g] = "running"
    /\ chan[p][g] # <<>>
    /\ ~ read_frame_ok(Head(chan[p][g]))
    /\ chan' = [chan EXCEPT ![p][g] = Tail(@)]
    /\ rdr' = [rdr EXCEPT ![p][g] = "done"]
    /\ UNCHANGED <<probe, peers, ss_pc, ss_result>>
    /\ UNCHANGED senderVars
    /\ UNCHANGED <<listening, incoming, arrived, received>>
    /\ UNCHANGED histVars

\* lines 183, 189-193: read_frame returns Ok(None): the stream was dropped by
\* the sender and is drained
reader_eof(p, g) ==
    /\ rdr[p][g] = "running"
    /\ chan[p][g] = <<>>
    /\ g < gen[p]
    /\ rdr' = [rdr EXCEPT ![p][g] = "done"]
    /\ UNCHANGED <<probe, peers, ss_pc, ss_result>>
    /\ UNCHANGED senderVars
    /\ UNCHANGED <<chan, listening, incoming, arrived, received>>
    /\ UNCHANGED histVars

\* ---------------------------------------------------------- receive_message
\* lines 50-61 at peer p: pop_front the incoming buffer, return Ok(msg);
\* a poll that finds it empty sleeps and changes nothing
receive_message(p) ==
    /\ incoming[p] # <<>>
    /\ received' = [received EXCEPT ![p] = Append(@, front(incoming[p]))]
    /\ incoming' = [incoming EXCEPT ![p] = pop_incoming(incoming[p])]
    /\ UNCHANGED <<probe, peers, ss_pc, ss_result>>
    /\ UNCHANGED senderVars
    /\ UNCHANGED <<chan, listening, rdr, arrived>>
    /\ UNCHANGED histVars

Next ==
    \/ \E t \in peers : send_message(t)
    \/ start_sender_spawn
    \/ start_sender_return
    \/ \E p \in peers : sender_connect(p)
    \/ \E p \in peers : sender_inspect(p)
    \/ \E p \in peers : sender_pop(p)
    \/ \E p \in peers : sender_write_ok(p)
    \/ \E p \in peers : sender_write_fail(p)
    \/ \E p \in peers : sender_reconnect(p)
    \/ \E p \in peers : start_incoming_listener(p)
    \/ \E p \in peers, g \in Gens : listener_accept(p, g)
    \/ \E p \in peers, g \in Gens : reader_read(p, g)
    \/ \E p \in peers, g \in Gens : reader_bad_frame(p, g)
    \/ \E p \in peers, g \in Gens : reader_eof(p, g)
    \/ \E p \in peers : receive_message(p)

Spec == Init /\ [][Next]_vars

\* Every spawned task keeps being scheduled: the sender's critical sections
\* and its write complete, the accept loop and the readers run, the polls of
\* start_sender and receive_message recur.  Whether a connect or reconnect
\* succeeds, whether a peer ever binds its listener, and whether the caller
\* sends, is up to the environment and carries no fairness.
Fairness ==
    /\ WF_vars(start_sender_spawn \/ start_sender_return)
    /\ \A p \in PeerIds :
         /\ WF_vars(\/ sender_inspect(p)
                    \/ sender_pop(p)
                    \/ sender_write_ok(p)
                    \/ sender_write_fail(p))
         /\ WF_vars(\E g \in Gens : listener_accept(p, g))
         /\ \A g \in Gens : WF_vars(\/ reader_read(p, g)
                                      \/ reader_bad_frame(p, g)
                                      \/ reader_eof(p, g))
         /\ WF_vars(receive_message(p))

FairSpec == Init /\ [][Next]_vars /\ Fairness

\* ------------------------------------------- Message::get_sender/get_receiver
\* The accessors applied to every Message value: either tag, every payload
\* variant, every pair of from and to.
ProbeInputs ==
    {[m |-> Message("SequencePaxos", f, t, v), sender |-> 0, receiver |-> 0] :
        f \in NodeIds, t \in NodeIds, v \in PaxosMsg}
    \cup
    {[m |-> Message("BLE", f, t, v), sender |-> 0, receiver |-> 0] :
        f \in NodeIds, t \in NodeIds, v \in HeartbeatMsg}

AccessorInit ==
    /\ TransportInit
    /\ probe \in ProbeInputs

call_get_sender ==
    /\ probe' = [probe EXCEPT !.sender = get_sender(probe.m)]
    /\ UNCHANGED transportVars

call_get_receiver ==
    /\ probe' = [probe EXCEPT !.receiver = get_receiver(probe.m)]
    /\ UNCHANGED transportVars

AccessorNext == call_get_sender \/ call_get_receiver

AccessorSpec == AccessorInit /\ [][AccessorNext]_vars

\* ------------------------------------------------------------------ helpers
NumPeers == Cardinality(peers)

\* the positions of message u: still queued, held by a sender, on a connection
Queued(u)   == \E i \in 1 .. Len(outgoing) : outgoing[i].env.msg = u
Held(u)     == \E p \in PeerIds : held[p] # NoMsg /\ held[p].env.msg = u
OnWire(u)   == \E p \in PeerIds, g \in Gens :
                  \E i \in 1 .. Len(chan[p][g]) :
                    read_frame_ok(chan[p][g][i]) /\ chan[p][g][i][5] = u
Pushes(u)   == Cardinality({<<p, i>> \in PeerIds \X (1 .. MaxMsgs) :
                  i <= Len(arrived[p]) /\ arrived[p][i].env.msg = u})

\* ----------------------------------------------------------------------- C1
Discarded(u) ==
    /\ u <= Len(sent) /\ ~ Queued(u) /\ ~ Held(u)
    /\ wcount[u] = 0 /\ \A f \in failed : f.msg # u

\* C1: start_sender returns only in a step taken while the ConnectedSet holds
\* at least floor((P+1)/2)+1 peer ids, and what it returns is Ok; so a run in
\* which the ConnectedSet never gets that large has no return of start_sender.
C1_ReturnsOnlyAtQuorum ==
    [][(ss_pc # "returned" /\ ss_pc' = "returned") =>
          /\ Len(connected) >= (NumPeers + 1) \div 2 + 1
          /\ ss_result' = "Ok"]_vars

C1_Witness ==
    /\ ss_pc = "returned"
    /\ ss_result = "Ok"
    /\ NumPeers = 2
    /\ Len(connected) = 2

\* ----------------------------------------------------------------------- C2
\* C2: the local node counts as a quorum member: whenever a strict majority
\* of the P+1 nodes (the connected peers plus the local node) is connected
\* from some point on, start_sender eventually returns.
C2_SelfCountsInQuorum ==
    <>[](ss_pc # "init" /\ 2 * (Len(connected) + 1) > NumPeers + 1)
        => <>(ss_pc = "returned")

\* ----------------------------------------------------------------------- C3
\* C3 as claimed: whenever the ConnectedSet size reaches the threshold,
\* start_sender returns, also if the size drops again right afterwards.
C3_ReturnsOnceReached ==
    (Len(connected) >= (NumPeers + 1) \div 2 + 1) ~> (ss_pc = "returned")

\* C3 amended: if the ConnectedSet size is at or above the threshold from some
\* point on, start_sender eventually returns.
C3_ReturnsIfQuorumStays ==
    <>[](Len(connected) >= (NumPeers + 1) \div 2 + 1) => <>(ss_pc = "returned")

C3_Witness ==
    /\ ss_pc = "returned"
    /\ fails > 0
    /\ Len(connected) >= (NumPeers + 1) \div 2 + 1

\* ----------------------------------------------------------------------- C4
\* C4: a message whose receiver was in the ConnectedSet from its enqueue to
\* its removal from the outgoing queue is delivered unchanged: once it is
\* neither queued, nor held by a sender, nor on a connection, it has been
\* pushed onto the receiver's incoming queue, equal to the value enqueued.
C4_ConnectedMeansDelivered ==
    \A u \in 1 .. Len(sent) :
        (cc[u] /\ ~ Queued(u) /\ ~ Held(u) /\ ~ OnWire(u)) =>
            \E i \in 1 .. Len(arrived[get_receiver(sent[u])]) :
                arrived[get_receiver(sent[u])][i] = sent[u]

\* ----------------------------------------------------------------------- C5
\* C5: the messages pushed onto a peer's incoming queue appear there in the
\* order in which send_message enqueued them.
C5_PerDestinationOrder ==
    \A p \in PeerIds : \A i, j \in 1 .. Len(arrived[p]) :
        i < j => arrived[p][i].env.msg < arrived[p][j].env.msg

\* ----------------------------------------------------------------------- C6
\* C6: a message at the head of the outgoing queue whose receiver is not in
\* the ConnectedSet is eventually removed from the queue.
C6_DeadLetterLeaves ==
    \A u \in Uids :
        (/\ outgoing # <<>>
         /\ front(outgoing).env.msg = u
         /\ ~ contains(connected, get_receiver(front(outgoing))))
            ~> ~ Queued(u)

\* ----------------------------------------------------------------------- C7
\* C7: in a two-node cluster whose peer stays offline, what the local node has
\* queued for the peer is eventually discarded: the outgoing queue becomes
\* empty.
C7_OfflinePeerQueueEmpties ==
    [](NumPeers = 1 /\ \A p \in peers : ~ listening[p])
        => ((outgoing # <<>>) ~> (outgoing = <<>>))

\* ----------------------------------------------------------------------- C8
\* C8: in a two-node cluster, after a write failure that left several messages
\* queued for the peer, and the reconnect, every message handed to
\* send_message arrives at the peer, in the original order:
\* once nothing is queued, held or on a connection, the peer's arrivals are
\* exactly the messages sent.
C8_AllArriveAfterReconnect ==
    \A p \in PeerIds :
        (/\ peers = {p}
         /\ \E f \in failed : f.queued >= 2
         /\ spc[p] = "polling"
         /\ \A u \in 1 .. Len(sent) : ~ Queued(u) /\ ~ Held(u) /\ ~ OnWire(u))
            => arrived[p] = sent

\* ----------------------------------------------------------------------- C9
\* C9: every message is written to a connection at most once (counting a
\* failed write), is pushed onto an incoming queue at most once, and only
\* onto the queue of its receiver.
C9_AtMostOnce ==
    \A u \in Uids :
        /\ wcount[u] + Cardinality({f \in failed : f.msg = u}) <= 1
        /\ Pushes(u) <= 1
        /\ Pushes(u) <= wcount[u]
        /\ \A p \in PeerIds : \A i \in 1 .. Len(arrived[p]) :
              get_receiver(arrived[p][i]) = p

C9_Witness ==
    \E p \in PeerIds :
        /\ gen[p] = 2
        /\ Len(arrived[p]) >= 2
        /\ fails > 0

\* ---------------------------------------------------------------------- C10
\* C10: receive_message returns the messages of the incoming queue in arrival
\* order, each once (what has arrived is what was returned followed by what
\* is still queued), and every message that arrives is eventually returned:
\* for every k, k arrivals at a peer lead to k returns there.  Arrivals and
\* returns only grow, so "k arrived ~> k returned" is stated as "again and
\* again, fewer than k have arrived or k have been returned".
C10_ReceiveInArrivalOrder ==
    /\ [](\A p \in PeerIds : arrived[p] = received[p] \o incoming[p])
    /\ \A p \in PeerIds : \A k \in Uids :
          []<>(Len(arrived[p]) < k \/ Len(received[p]) >= k)

C10_Witness ==
    \E p \in PeerIds :
        /\ Len(received[p]) >= 2
        /\ incoming[p] # <<>>

\* C11: send_message succeeds in every connectivity state; the outgoing queue
\* after the call is the queue before followed by the message, and the
\* ConnectedSet, the incoming queues and the messages already queued are
\* unchanged.
C11_SendAppendsAtTail ==
    /\ [](\A t \in peers : Len(sent) < MaxMsgs => ENABLED send_message(t))
    /\ [][Len(sent') > Len(sent) =>
            /\ outgoing' = outgoing \o <<sent'[Len(sent')]>>
            /\ SubSeq(outgoing', 1, Len(outgoing)) = outgoing
            /\ connected' = connected
            /\ incoming' = incoming
            /\ ss_result' = ss_result]_vars

\* calls made while the receiver was connected and while it was not, with
\* earlier messages still queued
C11_Witness ==
    /\ Len(outgoing) >= 2
    /\ \E u, v \in 1 .. Len(sent) : at_send[u] /\ ~ at_send[v]

\* C12: whether peer X is in the ConnectedSet changes only in a step of the
\* sender task of X: never in a step of another peer's sender, of
\* send_message, of receive_message, of a listener or reader, or of
\* start_sender.
C12_OnlyOwnSenderChangesEntry ==
    [][\A x \in PeerIds :
          (contains(connected, x) # contains(connected', x)) =>
              /\ spc'[x] # spc[x]
              /\ \A y \in PeerIds \ {x} :
                    spc'[y] = spc[y] /\ held'[y] = held[y] /\ gen'[y] = gen[y]
              /\ sent' = sent /\ outgoing' = outgoing
              /\ received' = received /\ incoming' = incoming
              /\ rdr' = rdr /\ listening' = listening
              /\ ss_pc' = ss_pc /\ ss_result' = ss_result]_vars

\* a peer was removed and added again by its sender while the other stayed
C12_Witness ==
    /\ Len(connected) = 2
    /\ \E x \in peers : gen[x] = 2 /\ connected[1] = x /\ gen[connected[2]] = 1

\* C13: a peer whose sender retries its connection forever blocks no other
\* sender: every other sender whose peer listens can connect whatever the
\* state of the rest; a message whose receiver is in the ConnectedSet leaves
\* the queue only into the hands of that receiver's sender, which writes it
\* unless its connection fails; and as long as a peer stays connected no
\* message addressed to it stays queued or unwritten.
C13_UnreachablePeerBlocksOnlyItself ==
    /\ [](\A y \in peers :
            (spc[y] = "connecting" /\ listening[y]) => ENABLED sender_connect(y))
    /\ [][\A u \in 1 .. Len(sent) :
            (/\ Queued(u) /\ ~ Queued(u)'
             /\ contains(connected, get_receiver(sent[u])))
                => held'[get_receiver(sent[u])] = sent[u]]_vars
    /\ [][\A y \in PeerIds :
            (held[y] # NoMsg /\ held'[y] = NoMsg /\ contains(connected', y))
                => wcount'[held[y].env.msg] = wcount[held[y].env.msg] + 1]_vars
    /\ []<>(\A y \in PeerIds :
              \/ ~ contains(connected, y)
              \/ /\ held[y] = NoMsg
                 /\ \A i \in 1 .. Len(outgoing) : get_receiver(outgoing[i]) # y)

\* peer x never listens and its sender is still in its connect loop; a message
\* for x was queued ahead of a message for the connected peer y, which has
\* been written
C13_Witness ==
    \E x, y \in peers :
        /\ x # y /\ ~ listening[x] /\ spc[x] = "connecting"
        /\ contains(connected, y)
        /\ \E v, u \in 1 .. Len(sent) :
              /\ v < u
              /\ get_receiver(sent[v]) = x
              /\ get_receiver(sent[u]) = y /\ wcount[u] = 1

\* C14: a write failure of the sender of X removes X from the ConnectedSet
\* and takes the sender into its reconnect; X is absent as long as the
\* reconnect lasts; the reconnect ends with X in the ConnectedSet again, on a
\* new connection, and the sender polling the queue; the failure changes no
\* result of the interface and no sender task ever ends.
C14_WriteFailureRecovery ==
    /\ [](\A x \in PeerIds :
            /\ spc[x] = "reconnecting" => ~ contains(connected, x)
            /\ spc[x] \in {"unspawned", "connecting", "polling", "can_send",
                           "writing", "reconnecting"}
            /\ (spc[x] = "polling" /\ outgoing # <<>>) => ENABLED sender_inspect(x))
    /\ [][fails' # fails =>
            \E x \in PeerIds :
                /\ spc[x] = "writing" /\ contains(connected, x)
                /\ spc'[x] = "reconnecting" /\ ~ contains(connected', x)
                /\ ss_result' = ss_result /\ ss_pc' = ss_pc]_vars
    /\ [][\A x \in PeerIds :
            (spc[x] = "reconnecting" /\ spc'[x] # "reconnecting") =>
                /\ spc'[x] = "polling"
                /\ contains(connected', x)
                /\ gen'[x] = gen[x] + 1]_vars

\* after a failure and a reconnect the sender has written on its new connection
C14_Witness ==
    \E x \in peers :
        /\ gen[x] = 2 /\ spc[x] = "polling" /\ contains(connected, x)
        /\ chan[x][2] # <<>>

\* C15: a reader task that ends, at EOF or at bytes that are no frame, pushes
\* nothing and leaves every incoming queue as it is; no other reader task and
\* no listener changes in that step; only messages that were sent are ever
\* pushed; every other running reader can still deliver its next frame and
\* every listener can still accept a connection made to it.
C15_ReaderEndsAlone ==
    /\ [][\A p \in PeerIds, g \in Gens :
            (rdr[p][g] = "running" /\ rdr'[p][g] # "running") =>
                /\ rdr'[p][g] = "done"
                /\ incoming' = incoming /\ arrived' = arrived
                /\ received' = received
                /\ listening' = listening
                /\ \A q \in PeerIds, h \in Gens :
                      <<q, h>> # <<p, g>> =>
                          rdr'[q][h] = rdr[q][h] /\ chan'[q][h] = chan[q][h]]_vars
    /\ [][\A p \in PeerIds : listening[p] => listening'[p]]_vars
    /\ [](\A p \in PeerIds :
            /\ \A i \in 1 .. Len(arrived[p]) :
                  \E u \in 1 .. Len(sent) : sent[u] = arrived[p][i]
            /\ \A g \in Gens :
                  /\ (/\ rdr[p][g] = "running" /\ chan[p][g] # <<>>
                      /\ read_frame_ok(Head(chan[p][g])))
                        => ENABLED reader_read(p, g)
                  /\ (listening[p] /\ 1 <= g /\ g <= gen[p] /\ rdr[p][g] = "none")
                        => ENABLED listener_accept(p, g))

\* the reader of p's only connection ended at a truncated frame, while the
\* reader of another peer runs and has a frame to deliver
C15_Witness ==
    \E p, q \in peers :
        /\ p # q
        /\ gen[p] = 1 /\ rdr[p][1] = "done"
        /\ rdr[q][1] = "running" /\ chan[q][1] # <<>>

\* C16: for every Message value, of either tag and with every payload
\* variant, get_sender returns the from field and get_receiver the to field of
\* the inner envelope; a call changes neither the message nor any other state.
C16_AccessorsReturnEnvelopeFields ==
    /\ [](/\ probe.sender \in {0, probe.m.env.from}
          /\ probe.receiver \in {0, probe.m.env.to})
    /\ [][/\ probe'.m = probe.m
          /\ transportVars' = transportVars
          /\ probe'.sender # probe.sender => probe'.sender = probe.m.env.from
          /\ probe'.receiver # probe.receiver => probe'.receiver = probe.m.env.to]_vars

\* both accessors were called on a BLE message whose from and to differ
C16_Witness ==
    /\ probe.m.tag = "BLE" /\ probe.m.env.msg = "Reply"
    /\ probe.m.env.from # probe.m.env.to
    /\ probe.sender = probe.m.env.from
    /\ probe.receiver = probe.m.env.to

\* C17: whenever the receiver of the head message is not in the ConnectedSet,
\* the inspection by the sender of any peer that is polling removes the head
\* and cannot leave it; a message removed without being taken for a write had
\* an absent receiver at that moment, whether or not the receiver was
\* connected when the message was enqueued, and is written to no connection.
C17_AnySenderDiscardsDeadLetter ==
    /\ [](\A y \in PeerIds :
            (/\ spc[y] = "polling" /\ outgoing # <<>>
             /\ ~ contains(connected, get_receiver(front(outgoing)))) =>
                /\ ENABLED (sender_inspect(y) /\ outgoing' = Tail(outgoing))
                /\ ~ ENABLED (sender_inspect(y) /\ outgoing' # Tail(outgoing)))
    /\ [][(Len(outgoing') < Len(outgoing) /\ held' = held) =>
            /\ ~ contains(connected, get_receiver(front(outgoing)))
            /\ outgoing' = Tail(outgoing)
            /\ \E y \in PeerIds :
                  spc[y] = "polling" /\ y # get_receiver(front(outgoing))
            /\ chan' = chan /\ wcount' = wcount /\ failed' = failed
            /\ connected' = connected]_vars
    /\ [](\A u \in Uids : Discarded(u) =>
            \A i \in 1 .. Len(arrived[get_receiver(sent[u])]) :
                arrived[get_receiver(sent[u])][i] # sent[u])

\* a message enqueued while its receiver was connected has been discarded by
\* the sender of the other peer
C17_Witness ==
    \E u \in 1 .. Len(sent) :
        /\ at_send[u] /\ Discarded(u)
        /\ spc[get_receiver(sent[u])] = "reconnecting"

\* C18: the inspection by a sender whose peer is not the receiver of the head
\* changes nothing when that receiver is in the ConnectedSet; a sender takes a
\* message for writing only from the head of the queue and only when it is
\* addressed to its own peer, the frame it writes is the frame of the message
\* it took, and the queue changes only by losing its head or gaining a tail.
C18_NonOwnerLeavesHead ==
    /\ [](\A y \in PeerIds :
            (/\ spc[y] = "polling" /\ outgoing # <<>>
             /\ get_receiver(front(outgoing)) # y
             /\ contains(connected, get_receiver(front(outgoing)))) =>
                ~ ENABLED (/\ sender_inspect(y)
                           /\ \/ outgoing' # outgoing \/ spc' # spc
                              \/ held' # held \/ chan' # chan))
    /\ [][\A y \in PeerIds :
            (held'[y] # held[y] /\ held'[y] # NoMsg) =>
                /\ outgoing # <<>>
                /\ held'[y] = front(outgoing)
                /\ outgoing' = Tail(outgoing)
                /\ get_receiver(front(outgoing)) = y]_vars
    /\ [][\A y \in PeerIds, g \in Gens :
            (Len(chan'[y][g]) > Len(chan[y][g]) /\ spc'[y] = "polling") =>
                /\ g = gen[y]
                /\ chan'[y][g] = Append(chan[y][g], to_frame(held[y]))]_vars
    /\ [][outgoing' # outgoing =>
            \/ outgoing # <<>> /\ outgoing' = Tail(outgoing)
            \/ /\ Len(outgoing') = Len(outgoing) + 1
               /\ SubSeq(outgoing', 1, Len(outgoing)) = outgoing]_vars

\* sender y polls while the head is for the other, connected peer and a
\* message for y waits behind it
C18_Witness ==
    \E y \in peers :
        /\ spc[y] = "polling" /\ Len(outgoing) >= 2
        /\ get_receiver(outgoing[1]) # y
        /\ contains(connected, get_receiver(outgoing[1]))
        /\ get_receiver(outgoing[2]) = y

\* C19: a sender of X that found the head addressed to X keeps finding that
\* same message at the head until it pops it: the queue is never empty at the
\* pop, the message popped is the head that was inspected and its receiver is
\* X; every message a sender holds for writing and every frame on a
\* connection to X has receiver X.
C19_RoutingExact ==
    /\ [](\A x \in PeerIds :
            /\ spc[x] # "panicked"
            /\ spc[x] = "can_send" =>
                  /\ outgoing # <<>>
                  /\ get_receiver(front(outgoing)) = x
                  /\ contains(connected, x)
            /\ held[x] # NoMsg => get_receiver(held[x]) = x
            /\ \A g \in Gens : \A i \in 1 .. Len(chan[x][g]) :
                  read_frame_ok(chan[x][g][i]) =>
                      get_receiver(from_frame(chan[x][g][i])) = x)
    /\ [][\A x \in PeerIds :
            /\ (spc[x] = "can_send" /\ spc'[x] = "can_send") =>
                  front(outgoing') = front(outgoing)
            /\ (spc[x] = "can_send" /\ spc'[x] # "can_send") =>
                  /\ spc'[x] = "writing"
                  /\ held'[x] = front(outgoing)
                  /\ outgoing' = Tail(outgoing)]_vars

\* between its two critical sections: sender x has seen its message at the
\* head, the other sender polls, and messages were sent since
C19_Witness ==
    \E x, y \in peers :
        /\ x # y /\ spc[x] = "can_send" /\ spc[y] = "polling"
        /\ Len(outgoing) = MaxMsgs
        /\ get_receiver(outgoing[2]) = y

\* C20: the ConnectedSet holds no id twice, only ids of the peer table and
\* never the local node's id, so it has at most P entries; X is in it exactly
\* when the sender of X has a connection and is in its polling loop, not in
\* its connect loop and not in a reconnect.
C20_ConnectedSetShape ==
    /\ \A i, j \in 1 .. Len(connected) : i # j => connected[i] # connected[j]
    /\ \A i \in 1 .. Len(connected) : connected[i] \in peers /\ connected[i] # SelfId
    /\ Len(connected) <= NumPeers
    /\ \A x \in PeerIds :
          /\ contains(connected, x) <=> spc[x] \in {"polling", "can_send", "writing"}
          /\ contains(connected, x) => gen[x] >= 1

\* every peer of a table of two is in the set, one of them after a reconnect
\* and about to write
C20_Witness ==
    /\ NumPeers = 2 /\ Len(connected) = 2
    /\ \E x \in peers : gen[x] = 2 /\ spc[x] = "writing"

\* C21: a sender in its connect loop or in a reconnect can neither inspect
\* the queue nor pop from it; every step that removes a message is taken by a
\* sender that is in the ConnectedSet; and a step from a state with an empty
\* ConnectedSet leaves the queue as it is or appends the message just sent.
C21_UnconnectedSenderLeavesQueue ==
    /\ [](\A x \in PeerIds :
            spc[x] \in {"unspawned", "connecting", "reconnecting"} =>
                /\ ~ ENABLED sender_inspect(x)
                /\ ~ ENABLED sender_pop(x)
                /\ held[x] = NoMsg)
    /\ [][Len(outgoing') < Len(outgoing) =>
            \E y \in PeerIds :
                /\ contains(connected, y)
                /\ spc[y] \in {"polling", "can_send"}]_vars
    /\ [][connected = <<>> =>
            \/ outgoing' = outgoing
            \/ /\ Len(sent') = Len(sent) + 1
               /\ outgoing' = Append(outgoing, sent'[Len(sent')])]_vars

\* after a write failure no peer is connected; the queue holds a message that
\* was enqueued during the outage behind an older one
C21_Witness ==
    /\ connected = <<>> /\ fails > 0 /\ Len(outgoing) >= 2
    /\ \E x \in peers : spc[x] = "reconnecting"
    /\ \E u \in 1 .. Len(sent) : Queued(u) /\ ~ at_send[u]
====
